---- MODULE Spec2Model ----
(***************************************************************************)
(* Model of rs-asn1der2uuid7: the UUIDv7 bit-field codec, the validator,   *)
(* the raw field record, its ASN.1 projection (src/src/lib.rs) and the     *)
(* command-line front end (src/examples/cli/uuid2asn1/src/main.rs).        *)
(*                                                                         *)
(* An unsigned integer of any width (u8, u16, u64, u128) is modelled as    *)
(* the set of the positions of its 1-bits, bit 0 being the least           *)
(* significant: 7 is {0,1,2}, 7 << 76 is {76,77,78}.  Bitwise AND is       *)
(* intersection, OR is union, a shift moves the positions and drops the    *)
(* ones that leave the width.  A byte of a byte buffer is a number 0..255. *)
(***************************************************************************)
EXTENDS Integers, Sequences, FiniteSets

VARIABLES seeds, uuid, raw, verified, asn1, asn1_u128,
          pc, result, sink, buffer, write, stdout, stderr, exit_code

vars == << seeds, uuid, raw, verified, asn1, asn1_u128,
           pc, result, sink, buffer, write, stdout, stderr, exit_code >>

libvars == << seeds, uuid, raw, verified, asn1, asn1_u128 >>
clivars == << pc, result, sink, buffer, write, stdout, stderr, exit_code >>

\* An optional value: << >> is "not there yet", << v >> holds v.
Nothing == << >>
Some(v) == << v >>

(***************************************************************************)
(* Fixed-width unsigned integers as sets of bit positions.                 *)
(***************************************************************************)

\* The bits of a small literal n (n < 2^31), such as 7, 0x0F or 0x0FFF.
Lit(n) == { i \in 0..30 : (n \div (2 ^ i)) % 2 = 1 }

\* A hexadecimal literal, given as its digits, most significant first.
Hex(digits) ==
    UNION { { 4 * (Len(digits) - k) + j : j \in Lit(digits[k]) } :
            k \in 1..Len(digits) }

\* x as an integer type of w bits: truncates (as u64, as u8, as u16) or
\* zero-extends (as u128).
Cast(x, w) == { i \in x : i < w }

\* x << n in a type of w bits: the bits shifted past the top are dropped.
Shl(x, n, w) == { i + n : i \in { j \in x : j + n < w } }

\* x >> n.
Shr(x, n) == { i - n : i \in { j \in x : j >= n } }

BitAnd(x, y) == x \cap y
BitOr(x, y) == x \cup y

\* The value of a byte-sized bit set as a number 0..255.
RECURSIVE Val(_)
Val(x) == IF x = {} THEN 0
          ELSE LET i == CHOOSE j \in x : TRUE
               IN  (2 ^ i) + Val(x \ {i})

\* The n big-endian bytes of x (to_be_bytes of a type of 8n bits).
to_be_bytes(x, n) ==
    [ k \in 1..n |->
        Val({ i - 8 * (n - k) : i \in { j \in x : j \div 8 = n - k } }) ]

(***************************************************************************)
(* UuidV7Seeds::to_u128                                                    *)
(***************************************************************************)

\* The three masks of to_u128, digit for digit. The first one has four
\* zero digits: it clears bits 112-127.
MaskTimestamp ==
    Hex(<< 0,0,0,0, 15,15,15,15, 15,15,15,15, 15,15,15,15,
           15,15,15,15, 15,15,15,15, 15,15,15,15, 15,15,15,15 >>)
MaskVersion ==
    Hex(<< 15,15,15,15, 15,15,15,15, 15,15,15,15, 0,15,15,15,
           15,15,15,15, 15,15,15,15, 15,15,15,15, 15,15,15,15 >>)
MaskVariant ==
    Hex(<< 15,15,15,15, 15,15,15,15, 15,15,15,15, 15,15,15,15,
           3,15,15,15, 15,15,15,15, 15,15,15,15, 15,15,15,15 >>)

\* A mutant of to_u128: the timestamp is rotated in, so that the bits of
\* the timestamp above bit 47 come back in at the bottom of the value.
to_u128_rotate(self) ==
    LET ts == Cast(self.unix_ts_ms, 128)
        u1 == BitOr(BitAnd(self.random_bytes, MaskTimestamp),
                    BitOr(Shl(ts, 80, 128), Shr(ts, 48)))
        u2 == BitOr(BitAnd(u1, MaskVersion), Shl(Lit(7), 76, 128))
    IN  BitOr(BitAnd(u2, MaskVariant), Shl(Lit(2), 62, 128))

to_u128(self) ==
    LET u0 == self.random_bytes
        u1 == BitOr(BitAnd(u0, MaskTimestamp),
                    Shl(Cast(self.unix_ts_ms, 128), 80, 128))
        u2 == BitOr(BitAnd(u1, MaskVersion), Shl(Lit(7), 76, 128))
        u3 == BitOr(BitAnd(u2, MaskVariant), Shl(Lit(2), 62, 128))
    IN  u3

(***************************************************************************)
(* UnverifiedUuidV7: the field accessors over a u128.                      *)
(***************************************************************************)

unix_ts_ms(self) == Cast(Shr(self, 80), 64)

version(self) == Cast(BitAnd(Shr(self, 76), Hex(<< 0, 15 >>)), 8)

\* A mutant of rand_a: the mask is 0xFF, which loses the top 4 bits.
rand_a_mask_ff(self) == Cast(BitAnd(Shr(self, 64), Hex(<< 15, 15 >>)), 16)

rand_a(self) == Cast(BitAnd(Shr(self, 64), Hex(<< 0, 15, 15, 15 >>)), 16)

variant(self) == Cast(BitAnd(Shr(self, 62), Hex(<< 0, 3 >>)), 8)

rand_b(self) ==
    Cast(BitAnd(self, Hex(<< 3,15,15,15, 15,15,15,15,
                             15,15,15,15, 15,15,15,15 >>)), 64)

(***************************************************************************)
(* UuidV7 and TryFrom<UnverifiedUuidV7> for UuidV7.                        *)
(***************************************************************************)

Ok(v) == [ ok |-> TRUE, value |-> v ]
Err(e) == [ ok |-> FALSE, error |-> e ]

InvalidVersion(v) == << "InvalidVersion", v >>
InvalidVariant(v) == << "InvalidVariant", v >>

\* A mutant of the validator: the variant is checked before the version.
UuidV7_try_from_variant_first(unverified_uuid) ==
    IF variant(unverified_uuid) # Lit(2)
    THEN Err(InvalidVariant(variant(unverified_uuid)))
    ELSE IF version(unverified_uuid) # Lit(7)
         THEN Err(InvalidVersion(version(unverified_uuid)))
         ELSE Ok(unverified_uuid)

\* A mutant of the validator: the variant check is missing.
UuidV7_try_from_no_variant(unverified_uuid) ==
    IF version(unverified_uuid) # Lit(7)
    THEN Err(InvalidVersion(version(unverified_uuid)))
    ELSE Ok(unverified_uuid)

UuidV7_try_from(unverified_uuid) ==
    IF version(unverified_uuid) # Lit(7)
    THEN Err(InvalidVersion(version(unverified_uuid)))
    ELSE IF variant(unverified_uuid) # Lit(2)
         THEN Err(InvalidVariant(variant(unverified_uuid)))
         ELSE Ok(unverified_uuid)

as_u128(self) == self

(***************************************************************************)
(* RawUuidV7 and From<UnverifiedUuidV7> for RawUuidV7.                     *)
(***************************************************************************)

RawUuidV7_from(unverified_uuid) ==
    [ unix_ts_ms |-> unix_ts_ms(unverified_uuid),
      version    |-> version(unverified_uuid),
      rand_a     |-> rand_a(unverified_uuid),
      variant    |-> variant(unverified_uuid),
      rand_b     |-> rand_b(unverified_uuid) ]

(***************************************************************************)
(* der::asn1::BitString, as the projection builds it.                      *)
(***************************************************************************)

\* BitString::new(unused_bits, bytes): refused when the unused-bit count is
\* above 7, or when it is not 0 and the buffer is empty; the bit length is
\* 8 * len - unused_bits.
BitString_new(unused_bits, bytes) ==
    IF unused_bits > 7 \/ (unused_bits # 0 /\ Len(bytes) = 0)
    THEN Err(<< "der::Error", "BIT STRING", "Value" >>)
    ELSE Ok([ unused_bits |-> unused_bits,
              bit_length  |-> 8 * Len(bytes) - unused_bits,
              inner       |-> bytes ])

(***************************************************************************)
(* RawUuidV7Asn1 and the conversions into it.                              *)
(***************************************************************************)

\* A mutant of the projection: rand_a is built with an unused-bit count of
\* 8 (a whole byte), which the bit-string constructor refuses.
RawUuidV7Asn1_try_from_unused8(raw_uuid) ==
    LET rand_a_bitstring  == BitString_new(8, to_be_bytes(raw_uuid.rand_a, 2))
        variant_bitstring == BitString_new(6, to_be_bytes(raw_uuid.variant, 1))
        rand_b_bitstring  == BitString_new(2, to_be_bytes(raw_uuid.rand_b, 8))
    IN  IF ~rand_a_bitstring.ok THEN rand_a_bitstring
        ELSE IF ~variant_bitstring.ok THEN variant_bitstring
        ELSE IF ~rand_b_bitstring.ok THEN rand_b_bitstring
        ELSE Ok([ unix_ts_ms |-> raw_uuid.unix_ts_ms,
                  version    |-> raw_uuid.version,
                  rand_a     |-> rand_a_bitstring.value,
                  variant    |-> variant_bitstring.value,
                  rand_b     |-> rand_b_bitstring.value ])

\* A mutant of the projection: the bytes of rand_a and rand_b are taken
\* little-endian (to_le_bytes).
RawUuidV7Asn1_try_from_le(raw_uuid) ==
    LET le(b) == [ k \in 1..Len(b) |-> b[Len(b) + 1 - k] ]
        rand_a_bitstring  == BitString_new(4, le(to_be_bytes(raw_uuid.rand_a, 2)))
        variant_bitstring == BitString_new(6, to_be_bytes(raw_uuid.variant, 1))
        rand_b_bitstring  == BitString_new(2, le(to_be_bytes(raw_uuid.rand_b, 8)))
    IN  IF ~rand_a_bitstring.ok THEN rand_a_bitstring
        ELSE IF ~variant_bitstring.ok THEN variant_bitstring
        ELSE IF ~rand_b_bitstring.ok THEN rand_b_bitstring
        ELSE Ok([ unix_ts_ms |-> raw_uuid.unix_ts_ms,
                  version    |-> raw_uuid.version,
                  rand_a     |-> rand_a_bitstring.value,
                  variant    |-> variant_bitstring.value,
                  rand_b     |-> rand_b_bitstring.value ])

\* TryFrom<RawUuidV7> for RawUuidV7Asn1: each `?` returns the first error.
RawUuidV7Asn1_try_from(raw_uuid) ==
    LET rand_a_bitstring  == BitString_new(4, to_be_bytes(raw_uuid.rand_a, 2))
        variant_bitstring == BitString_new(6, to_be_bytes(raw_uuid.variant, 1))
        rand_b_bitstring  == BitString_new(2, to_be_bytes(raw_uuid.rand_b, 8))
    IN  IF ~rand_a_bitstring.ok THEN rand_a_bitstring
        ELSE IF ~variant_bitstring.ok THEN variant_bitstring
        ELSE IF ~rand_b_bitstring.ok THEN rand_b_bitstring
        ELSE Ok([ unix_ts_ms |-> raw_uuid.unix_ts_ms,
                  version    |-> raw_uuid.version,
                  rand_a     |-> rand_a_bitstring.value,
                  variant    |-> variant_bitstring.value,
                  rand_b     |-> rand_b_bitstring.value ])

\* TryFrom<u128> for RawUuidV7Asn1: unpack, then project; no validation.
RawUuidV7Asn1_try_from_u128(uuid_u128) ==
    RawUuidV7Asn1_try_from(RawUuidV7_from(uuid_u128))

\* TryFrom<Uuid> for RawUuidV7Asn1 (uuid_value.as_u128() is the value).
RawUuidV7Asn1_try_from_Uuid(uuid_value) ==
    RawUuidV7Asn1_try_from_u128(uuid_value)

\* The fields of the derived SEQUENCE, in the order the struct declares
\* them: name, ASN.1 type, value (and, for an integer, its container's
\* size in bytes).
Sequence_fields(self) ==
    << << "unix_ts_ms", "INTEGER", self.unix_ts_ms, 8 >>,
       << "version", "INTEGER", self.version, 1 >>,
       << "rand_a", "BIT STRING", self.rand_a, 0 >>,
       << "variant", "BIT STRING", self.variant, 0 >>,
       << "rand_b", "BIT STRING", self.rand_b, 0 >> >>

(***************************************************************************)
(* DER serialization (der::Encode::to_der of the derived SEQUENCE).        *)
(***************************************************************************)

RECURSIVE strip_leading_zeroes(_)
strip_leading_zeroes(bytes) ==
    IF Len(bytes) > 1 /\ bytes[1] = 0
    THEN strip_leading_zeroes(Tail(bytes))
    ELSE bytes

\* The content of an unsigned INTEGER: no leading zero bytes, and one zero
\* byte in front when the top bit of the first byte is set.
encode_uint(bytes) ==
    LET s == strip_leading_zeroes(bytes)
    IN  IF s[1] >= 128 THEN << 0 >> \o s ELSE s

\* The definite length n: one byte below 128, else 0x81..0x84 and the
\* big-endian bytes of n.
encode_length(n) ==
    IF n < 128 THEN << n >>
    ELSE IF n < 256 THEN << 129, n >>
    ELSE IF n < 65536 THEN << 130, n \div 256, n % 256 >>
    ELSE IF n < 16777216
         THEN << 131, n \div 65536, (n \div 256) % 256, n % 256 >>
    ELSE << 132, n \div 16777216, (n \div 65536) % 256,
            (n \div 256) % 256, n % 256 >>

\* Tag, definite length, content.
TLV(tag, content) == << tag >> \o encode_length(Len(content)) \o content

encode_field(f) ==
    IF f[2] = "INTEGER"
    THEN TLV(2, encode_uint(to_be_bytes(f[3], f[4])))
    ELSE TLV(3, << f[3].unused_bits >> \o f[3].inner)

RECURSIVE encode_fields(_)
encode_fields(fs) ==
    IF fs = << >> THEN << >>
    ELSE encode_field(Head(fs)) \o encode_fields(Tail(fs))

to_der(self) == TLV(48, encode_fields(Sequence_fields(self)))

\* RawUuidV7Asn1::to_der_bytes: to_der, its error wrapped as an io::Error.
to_der_bytes(self) == Ok(to_der(self))

\* map_err(io::Error::other)
map_err_io(r) == IF r.ok THEN r ELSE Err(<< "io::Error", r.error >>)

\* new_raw_uuid_v7_asn1_now, v7 being the value Uuid::now_v7() returned.
new_raw_uuid_v7_asn1_now(v7) == map_err_io(RawUuidV7Asn1_try_from_Uuid(v7))

(***************************************************************************)
(* The command-line front end.                                             *)
(***************************************************************************)

ExitCode_SUCCESS == 0
ExitCode_FAILURE == 1
\* The exit status of a process whose main thread panicked.
ExitCode_PANIC == 101

now2uuid2asn1(v7) ==
    LET asn1_uuid == new_raw_uuid_v7_asn1_now(v7)
    IN  IF ~asn1_uuid.ok THEN asn1_uuid ELSE to_der_bytes(asn1_uuid.value)

\* How the process ended: exit status n, or killed by a signal.
Exited(n) == << "exit", n >>
Killed(sig) == << "signal", sig >>

\* The largest number of bytes a limited sink accepts before it fails.
MaxRoom == 20

\* What standard output is attached to:
\*   "accepts": every write succeeds;
\*   "closed":  a closed descriptor, whose EBADF std's stdout reports as
\*              success;
\*   "limited": room more bytes are accepted, then every write(2) fails (a
\*              full device, a closed pipe, a file at its size limit); when
\*              fatal, the failing write also raises a signal that kills the
\*              process (SIGXFSZ at its default disposition).
Sinks ==
    { [ kind |-> k, room |-> 0, fatal |-> FALSE ] : k \in { "accepts", "closed" } }
    \cup
    { [ kind |-> "limited", room |-> n, fatal |-> f ] :
        n \in 0..MaxRoom, f \in BOOLEAN }

NoSink == [ kind |-> "none", room |-> 0, fatal |-> FALSE ]

\* write_all on the raw standard output, a loop over write(2): the result,
\* the bytes that reached the sink (kept when a later write fails), and
\* whether the failing write killed the process. Nothing is written for an
\* empty buffer.
raw_write_all(bytes, snk) ==
    IF bytes = << >> \/ snk.kind = "closed"
    THEN [ res |-> Ok("unit"), delivered |-> << >>, killed |-> FALSE ]
    ELSE IF snk.kind = "accepts" \/ snk.room >= Len(bytes)
    THEN [ res |-> Ok("unit"), delivered |-> bytes, killed |-> FALSE ]
    ELSE [ res |-> Err(<< "io::Error", "write failed" >>),
           delivered |-> SubSeq(bytes, 1, snk.room),
           killed |-> snk.fatal ]

\* The sink after it took the delivered bytes.
sink_after(snk, delivered) ==
    IF snk.kind = "limited"
    THEN [ snk EXCEPT !.room = @ - Len(delivered) ]
    ELSE snk

\* The index of the last 0x0A of bytes, 0 when there is none.
last_newline(bytes) ==
    LET at == { k \in 1..Len(bytes) : bytes[k] = 10 }
    IN  IF at = {} THEN 0 ELSE CHOOSE k \in at : \A j \in at : j <= k

\* der2writer / der2stdout: write_all on io::stdout(), a line-buffered writer
\* with an empty buffer. Bytes up to the last 0x0A are written to the sink at
\* once, the rest (everything, when there is no 0x0A) only fills the buffer.
der2stdout(der_bytes, snk) ==
    LET nl == last_newline(der_bytes)
        w  == raw_write_all(SubSeq(der_bytes, 1, nl), snk)
    IN  IF nl = 0
        THEN [ res |-> Ok("unit"), delivered |-> << >>,
               buffered |-> der_bytes, killed |-> FALSE ]
        ELSE IF ~w.res.ok
        THEN [ res |-> w.res, delivered |-> w.delivered,
               buffered |-> << >>, killed |-> w.killed ]
        ELSE [ res |-> Ok("unit"), delivered |-> w.delivered,
               buffered |-> SubSeq(der_bytes, nl + 1, Len(der_bytes)),
               killed |-> FALSE ]

(***************************************************************************)
(* Inputs.                                                                 *)
(***************************************************************************)

\* An input is a base pattern with any one bit flipped, or with up to
\* MaxFlips of the probe positions flipped together.
MaxFlips == 1

\* The bit positions around the field boundaries of the layout and of the
\* 48-bit timestamp, where flips are tried.
Probes128 == { 0, 1, 3, 4, 7, 8, 61, 62, 63, 64, 65, 67, 68, 71, 72, 75,
               76, 77, 78, 79, 80, 81, 127 }
Probes64 == { 0, 1, 46, 47, 48, 49, 62, 63 }

RECURSIVE FlipSets(_, _)
FlipSets(positions, k) ==
    IF k = 0 THEN { {} }
    ELSE LET less == FlipSets(positions, k - 1)
         IN  less \cup { S \cup {p} : S \in less, p \in positions }

Flip(x, S) == (x \ S) \cup (S \ x)

\* 128-bit base patterns: zero, all ones, a UUIDv7, a UUIDv4.
Bases128 ==
    { {},
      0..127,
      Hex(<< 0,1,8,14, 2,12,1,10, 2,11,3,12, 7,10,5,12,
             9,14,3,13, 5,10,5,10, 12,3,12,3, 0,15,1,14 >>),
      Hex(<< 15,4,7,10, 12,1,0,11, 5,8,12,12, 4,3,7,2,
             10,5,6,7, 0,14,0,2, 11,2,13,3, 13,4,7,9 >>) }

\* 64-bit timestamps: zero, 0x0001_8E2C_1A2B, 2^48 - 1, 2^64 - 1.
Bases64 ==
    { {},
      Hex(<< 0,0,0,1, 8,14,2,12, 1,10,2,11 >>),
      0..47,
      0..63 }

U128Inputs ==
    { Flip(b, S) : b \in Bases128,
                   S \in FlipSets(Probes128, MaxFlips)
                         \cup { {p} : p \in 0..127 } }

U64Inputs ==
    { Flip(b, S) : b \in Bases64,
                   S \in FlipSets(Probes64, MaxFlips)
                         \cup { {p} : p \in 0..63 } }

SeedsInputs ==
    { [ unix_ts_ms |-> t, random_bytes |-> r ] :
        t \in U64Inputs, r \in Bases128 }
    \cup
    { [ unix_ts_ms |-> t, random_bytes |-> r ] :
        t \in Bases64, r \in U128Inputs }

\* What Uuid::now_v7() may return: a value with version 7 and variant 2.
NowV7Values ==
    { v \in U128Inputs : version(v) = Lit(7) /\ variant(v) = Lit(2) }

(***************************************************************************)
(* The library: a caller holds seeds or a 128-bit value and applies the    *)
(* conversions to it.                                                      *)
(***************************************************************************)

CliIdle ==
    /\ pc = "lib" /\ result = Nothing /\ write = Nothing
    /\ sink = NoSink /\ buffer = << >>
    /\ stdout = << >> /\ stderr = << >> /\ exit_code = Nothing

Init ==
    /\ \/ seeds \in { Some(s) : s \in SeedsInputs } /\ uuid = Nothing
       \/ seeds = Nothing /\ uuid \in { Some(x) : x \in U128Inputs }
    /\ raw = Nothing /\ verified = Nothing
    /\ asn1 = Nothing /\ asn1_u128 = Nothing
    /\ CliIdle

\* From<UuidV7Seeds> for u128 / UuidV7Seeds::to_u128
Pack ==
    /\ pc = "lib" /\ seeds # Nothing /\ uuid = Nothing
    /\ uuid' = Some(to_u128(seeds[1]))
    /\ UNCHANGED << seeds, raw, verified, asn1, asn1_u128, clivars >>

\* RawUuidV7::from(UnverifiedUuidV7(uuid))
Unpack ==
    /\ pc = "lib" /\ uuid # Nothing /\ raw = Nothing
    /\ raw' = Some(RawUuidV7_from(uuid[1]))
    /\ UNCHANGED << seeds, uuid, verified, asn1, asn1_u128, clivars >>

\* UuidV7::try_from(UnverifiedUuidV7(uuid))
Validate ==
    /\ pc = "lib" /\ uuid # Nothing /\ verified = Nothing
    /\ verified' = Some(UuidV7_try_from(uuid[1]))
    /\ UNCHANGED << seeds, uuid, raw, asn1, asn1_u128, clivars >>

\* RawUuidV7Asn1::try_from(raw)
Project ==
    /\ pc = "lib" /\ raw # Nothing /\ asn1 = Nothing
    /\ asn1' = Some(RawUuidV7Asn1_try_from(raw[1]))
    /\ UNCHANGED << seeds, uuid, raw, verified, asn1_u128, clivars >>

\* RawUuidV7Asn1::try_from(uuid): straight from the 128-bit value
ProjectU128 ==
    /\ pc = "lib" /\ uuid # Nothing /\ asn1_u128 = Nothing
    /\ asn1_u128' = Some(RawUuidV7Asn1_try_from_u128(uuid[1]))
    /\ UNCHANGED << seeds, uuid, raw, verified, asn1, clivars >>

Next == Pack \/ Unpack \/ Validate \/ Project \/ ProjectU128

Spec == Init /\ [][Next]_vars

(***************************************************************************)
(* The command-line front end: main of the uuid2asn1 example.              *)
(***************************************************************************)

CliInit ==
    /\ seeds = Nothing /\ uuid = Nothing /\ raw = Nothing
    /\ verified = Nothing /\ asn1 = Nothing /\ asn1_u128 = Nothing
    /\ pc = "main" /\ result = Nothing /\ write = Nothing
    /\ sink \in Sinks /\ buffer = << >>
    /\ stdout = << >> /\ stderr = << >> /\ exit_code = Nothing

\* now2uuid2asn1(): Uuid::now_v7() returns v7, which is projected and
\* serialized.
Now2Uuid2Asn1(v7) ==
    /\ pc = "main"
    /\ uuid' = Some(v7)
    /\ result' = Some(now2uuid2asn1(v7))
    /\ pc' = "match"
    /\ UNCHANGED << seeds, raw, verified, asn1, asn1_u128,
                    sink, buffer, write, stdout, stderr, exit_code >>

\* The match of main. Ok: der2stdout(..).expect(..), which panics when the
\* write returns an error, then ExitCode::SUCCESS. Err: eprintln!,
\* ExitCode::FAILURE. A write that kills the process ends the run here.
MainMatch ==
    /\ pc = "match"
    /\ IF result[1].ok
       THEN LET written == der2stdout(result[1].value, sink)
            IN  /\ stdout' = written.delivered
                /\ sink' = sink_after(sink, written.delivered)
                /\ buffer' = written.buffered
                /\ IF written.killed
                   THEN /\ write' = Nothing
                        /\ stderr' = << >>
                        /\ exit_code' = Killed("SIGXFSZ")
                        /\ pc' = "exited"
                   ELSE /\ write' = Some(written.res)
                        /\ pc' = "returned"
                        /\ IF written.res.ok
                           THEN /\ stderr' = << >>
                                /\ exit_code' = Exited(ExitCode_SUCCESS)
                           ELSE /\ stderr' = << "panicked",
                                                "Failed to write to stdout",
                                                written.res.error >>
                                /\ exit_code' = Exited(ExitCode_PANIC)
       ELSE /\ write' = Nothing
            /\ stdout' = << >>
            /\ sink' = sink
            /\ buffer' = << >>
            /\ stderr' = << "Error: ", result[1].error >>
            /\ exit_code' = Exited(ExitCode_FAILURE)
            /\ pc' = "returned"
    /\ UNCHANGED << libvars, result >>

\* The process exits: the runtime flushes what standard output still
\* buffers and ignores the outcome; the exit code stays what main decided,
\* unless the flush's failing write kills the process.
ExitFlush ==
    /\ pc = "returned"
    /\ LET flushed == raw_write_all(buffer, sink)
       IN  /\ stdout' = stdout \o flushed.delivered
           /\ sink' = sink_after(sink, flushed.delivered)
           /\ exit_code' = IF flushed.killed THEN Killed("SIGXFSZ")
                           ELSE exit_code
    /\ buffer' = << >>
    /\ pc' = "exited"
    /\ UNCHANGED << libvars, result, write, stderr >>

CliNext ==
    \/ \E v7 \in NowV7Values : Now2Uuid2Asn1(v7)
    \/ MainMatch
    \/ ExitFlush

CliSpec == CliInit /\ [][CliNext]_vars

(***************************************************************************)
(* Properties.                                                             *)
(***************************************************************************)

\* Bits lo..hi of x, moved down to positions 0..hi-lo.
Field(x, lo, hi) == { i - lo : i \in { j \in x : lo <= j /\ j <= hi } }

\* The value v placed at bit position lo.
Placed(v, lo) == { i + lo : i \in v }

\* Bit j (0 = least significant) of byte number b.
ByteBit(b, j) == (b \div (2 ^ j)) % 2

\* bytes are the n big-endian bytes of x: bit j of byte k is bit
\* 8 * (n - k) + j of x.
IsBigEndian(bytes, x, n) ==
    /\ Len(bytes) = n
    /\ \A k \in 1..n : \A j \in 0..7 :
         (ByteBit(bytes[k], j) = 1) <=> ((8 * (n - k) + j) \in x)

\* The significant bits of a bit string, first bit first: all bits of the
\* buffer except the unused low-order bits of the final byte.
Significant(bs) ==
    [ k \in 1..(8 * Len(bs.inner) - bs.unused_bits) |->
        ByteBit(bs.inner[((k - 1) \div 8) + 1], 7 - ((k - 1) % 8)) ]

\* The unused bits of a bit string, as the number they form.
UnusedPart(bs) == bs.inner[Len(bs.inner)] % (2 ^ bs.unused_bits)

\* C1 (as claimed): a timestamp T below 2^48 and a seed R, packed and then
\* unpacked, give version 7, variant 2, unix_ts_ms T, rand_a = bits 64-75 of R and
\* rand_b = bits 0-61 of R; the 74 bits outside the timestamp, version and
\* variant positions of the packed value are the seed's.
C1_RoundTrip ==
    (seeds # Nothing /\ raw # Nothing /\ seeds[1].unix_ts_ms \subseteq 0..47)
    => LET T == seeds[1].unix_ts_ms
           R == seeds[1].random_bytes
       IN  /\ raw[1].version = {0, 1, 2}
           /\ raw[1].variant = {1}
           /\ raw[1].unix_ts_ms = T
           /\ raw[1].rand_a = Field(R, 64, 75)
           /\ raw[1].rand_b = Field(R, 0, 61)
           /\ uuid[1] \cap ((0..61) \cup (64..75))
                = R \cap ((0..61) \cup (64..75))

\* C2: validation succeeds iff bits 76-79 are 0111 and bits 62-63 are 10;
\* it fails with InvalidVersion(actual version) whenever the version is not
\* 7, and with InvalidVariant(actual variant) when the version is 7 and the
\* variant is not 2.
C2_ValidatorCorrect ==
    verified # Nothing
    => LET ver == Field(uuid[1], 76, 79)
           var == Field(uuid[1], 62, 63)
       IN  /\ verified[1].ok <=> (ver = {0, 1, 2} /\ var = {1})
           /\ ver # {0, 1, 2}
                => verified[1] = [ ok |-> FALSE,
                                   error |-> << "InvalidVersion", ver >> ]
           /\ (ver = {0, 1, 2} /\ var # {1})
                => verified[1] = [ ok |-> FALSE,
                                   error |-> << "InvalidVariant", var >> ]

\* C2 witness: a value whose version and variant are both wrong has been
\* validated.
C2_Witness ==
    /\ verified # Nothing
    /\ Field(uuid[1], 76, 79) = {2}
    /\ Field(uuid[1], 62, 63) = {0, 1}

\* C3 (as claimed): in the projected record the rand_a bit string has 12
\* significant bits and 4 unused bits that are zero, the variant bit string
\* 2 significant bits and 6 zero unused bits, the rand_b bit string 62
\* significant bits and 2 zero unused bits.
C3_FieldWidthZeroPadding ==
    (asn1 # Nothing /\ asn1[1].ok)
    => LET a == asn1[1].value
       IN  /\ a.rand_a.bit_length = 12 /\ a.rand_a.unused_bits = 4
           /\ UnusedPart(a.rand_a) = 0
           /\ a.variant.bit_length = 2 /\ a.variant.unused_bits = 6
           /\ UnusedPart(a.variant) = 0
           /\ a.rand_b.bit_length = 62 /\ a.rand_b.unused_bits = 2
           /\ UnusedPart(a.rand_b) = 0

\* What of a projected record is meaningful: the integers and the
\* significant bits of the bit strings.
Meaning(a) ==
    << a.unix_ts_ms, a.version,
       Significant(a.rand_a), Significant(a.variant), Significant(a.rand_b) >>

\* C4 (as claimed): a 128-bit value whose raw field record differs from the
\* projected one's projects to a record that differs in an integer field or
\* in the significant bits of a bit string.
C4_ProjectionLossless ==
    (asn1 # Nothing /\ asn1[1].ok)
    => \A y \in U128Inputs :
         RawUuidV7_from(y) # raw[1]
         => Meaning(RawUuidV7Asn1_try_from(RawUuidV7_from(y)).value)
              # Meaning(asn1[1].value)

\* C5: the projected record carries unix_ts_ms and version unchanged,
\* rand_a as its 2 big-endian bytes with unused-bit count 4, variant as its
\* 1 byte with count 6, rand_b as its 8 big-endian bytes with count 2, in
\* the field order unix_ts_ms, version, rand_a, variant, rand_b.
C5_WireShape ==
    asn1 # Nothing
    => /\ asn1[1].ok
       /\ LET a == asn1[1].value
              r == raw[1]
              fs == Sequence_fields(a)
          IN  /\ a.unix_ts_ms = r.unix_ts_ms
              /\ a.version = r.version
              /\ IsBigEndian(a.rand_a.inner, r.rand_a, 2)
              /\ a.rand_a.unused_bits = 4
              /\ IsBigEndian(a.variant.inner, r.variant, 1)
              /\ a.variant.unused_bits = 6
              /\ IsBigEndian(a.rand_b.inner, r.rand_b, 8)
              /\ a.rand_b.unused_bits = 2
              /\ [ k \in 1..Len(fs) |-> fs[k][1] ]
                   = << "unix_ts_ms", "version", "rand_a", "variant", "rand_b" >>
              /\ [ k \in 1..Len(fs) |-> fs[k][3] ]
                   = << a.unix_ts_ms, a.version, a.rand_a, a.variant, a.rand_b >>

\* C5 witness: a record whose rand_a has bits in both of its bytes and
\* whose rand_b has bits in its first and last byte has been projected.
C5_Witness ==
    /\ asn1 # Nothing
    /\ 0 \in raw[1].rand_a /\ 9 \in raw[1].rand_a
    /\ 0 \in raw[1].rand_b /\ 60 \in raw[1].rand_b /\ 1 \notin raw[1].rand_b
    /\ raw[1].variant # {}

\* C6: a successful validation yields a wrapper bit-identical to the input,
\* and every validated value has version 7 and variant 2.
C6_ValidatedIsInput ==
    (verified # Nothing /\ verified[1].ok)
    => /\ as_u128(verified[1].value) = uuid[1]
       /\ Field(as_u128(verified[1].value), 76, 79) = {0, 1, 2}
       /\ Field(as_u128(verified[1].value), 62, 63) = {1}

\* C6 witness: a validation has succeeded.
C6_Witness ==
    /\ verified # Nothing /\ verified[1].ok
    /\ Field(uuid[1], 0, 61) # {} /\ Field(uuid[1], 64, 75) # {}

\* C7: projecting a 128-bit value (unpack, then project, no validation)
\* returns a record and no error, also for a value the validator rejects.
C7_ProjectionNeverFails ==
    asn1_u128 # Nothing
    => /\ asn1_u128[1].ok
       /\ asn1_u128[1].value.rand_a.unused_bits < 8
       /\ asn1_u128[1].value.variant.unused_bits < 8
       /\ asn1_u128[1].value.rand_b.unused_bits < 8
       /\ Len(asn1_u128[1].value.rand_a.inner) = 2
       /\ Len(asn1_u128[1].value.variant.inner) = 1
       /\ Len(asn1_u128[1].value.rand_b.inner) = 8

\* C7 witness: a value the validator rejected has been projected.
C7_Witness ==
    /\ asn1_u128 # Nothing /\ asn1_u128[1].ok
    /\ verified # Nothing /\ ~verified[1].ok

\* C8: packing any 64-bit timestamp T with a seed R gives the value of
\* packing (T mod 2^48, R): the bits of T above bit 47 reach no bit of the
\* result, and the low 80 bits do not depend on T at all.
C8_TimestampTruncated ==
    (seeds # Nothing /\ uuid # Nothing)
    => LET T == seeds[1].unix_ts_ms
           R == seeds[1].random_bytes
           low == { i \in T : i < 48 }
       IN  /\ uuid[1] \subseteq 0..127
           /\ uuid[1] = to_u128([ unix_ts_ms |-> low, random_bytes |-> R ])
           /\ Field(uuid[1], 0, 79)
                = Field(to_u128([ unix_ts_ms |-> {}, random_bytes |-> R ]), 0, 79)

\* C8 witness: a timestamp above 2^48 - 1, with bits below bit 48 clear,
\* has been packed.
C8_Witness ==
    /\ seeds # Nothing /\ uuid # Nothing
    /\ 48 \in seeds[1].unix_ts_ms /\ 63 \in seeds[1].unix_ts_ms
    /\ 0 \notin seeds[1].unix_ts_ms
    /\ seeds[1].random_bytes = {}

\* C9 (as claimed): a run of the front end ends either with the bytes on
\* standard output and the success code, or, on any error, the write
\* failure included, with a message on stderr and the failure code.
C9_EveryErrorReported ==
    pc = "exited"
    => \/ /\ exit_code = Exited(ExitCode_SUCCESS)
          /\ stdout = result[1].value
       \/ /\ exit_code = Exited(ExitCode_FAILURE)
          /\ stderr # << >>
          /\ stdout = << >>

\* C10: the five extracted fields are within their widths and, put back at
\* their positions, give exactly the value they were extracted from.
C10_UnpackPartitions ==
    raw # Nothing
    => LET r == raw[1]
       IN  /\ r.unix_ts_ms \subseteq 0..47
           /\ r.version \subseteq 0..3
           /\ r.rand_a \subseteq 0..11
           /\ r.variant \subseteq 0..1
           /\ r.rand_b \subseteq 0..61
           /\ Placed(r.unix_ts_ms, 80) \cup Placed(r.version, 76)
                \cup Placed(r.rand_a, 64) \cup Placed(r.variant, 62)
                \cup r.rand_b
                = uuid[1]

\* C10 witness: a value with bits set at both ends of every field has been
\* unpacked.
C10_Witness ==
    /\ raw # Nothing
    /\ { 0, 11 } \subseteq raw[1].rand_a
    /\ { 0, 61 } \subseteq raw[1].rand_b
    /\ { 0, 47 } \subseteq raw[1].unix_ts_ms
    /\ { 0, 3 } \subseteq raw[1].version
    /\ raw[1].variant = { 0 }

====
